---- MODULE Spec2Model ----
(***************************************************************************)
(* LambdaScriptJob (lambda-script-job.ts) and its two tenant lifecycle     *)
(* specialisations, with the two script runners of the repository: the     *)
(* inline Lambda handler of createLambdaFunction and the docker tenantprov *)
(* handler.  The Step Functions workflow built by                          *)
(* createProvisioningStateMachine is modelled state by state:              *)
(*     startLambda --> notifySuccessEventBridgeTask                        *)
(*          \--(Catch States.ALL)--> notifyFailureEventBridgeTask          *)
(* One execution of the workflow is one handling of one incoming event.    *)
(* The tenantprov handler keeps its script in /tmp/prov-script.sh of the   *)
(* execution environment it runs in; the file outlives the invocation.     *)
(***************************************************************************)
EXTENDS Integers, Sequences, FiniteSets, TLC

VARIABLES
    props,        \* ScriptJobProps the job was constructed with (immutable)
    runner,       \* which handler code runs behind jobRunnerLambdaFunction
    executions,   \* execution id -> state of that workflow execution
    bus,          \* the entries put on the event bus, each with its execution
    tmp           \* execution environment -> content of /tmp/prov-script.sh

vars == <<props, runner, executions, bus, tmp>>

(***************************************************************************)
(* Bounds of the model.                                                    *)
(***************************************************************************)
MaxExecutions == 1    \* executions of the workflow, all job configurations
MaxConcurrent == 2    \* executions of the workflow, one job configuration

(***************************************************************************)
(* JSON values: strings and objects (objects are functions from names).    *)
(***************************************************************************)
Str(s) == [t |-> "str", v |-> s]
Obj(f) == [t |-> "obj", v |-> f]

IsStr(x) == x.t = "str"
IsObj(x) == x.t = "obj"

\* The order in which the keys of the objects of the model are written.
KeyOrder == <<"tenantId", "tier", "config", "region", "size", "dbEndpoint", "tenantStatus">>

RECURSIVE JoinMembers(_, _, _)
JoinMembers(f, i, first) ==
    IF i > Len(KeyOrder) THEN ""
    ELSE IF KeyOrder[i] \in DOMAIN f
         THEN (IF first THEN "" ELSE ",")
              \o "\"" \o KeyOrder[i] \o "\":\"" \o f[KeyOrder[i]].v \o "\""
              \o JoinMembers(f, i + 1, FALSE)
         ELSE JoinMembers(f, i + 1, first)

\* States.JsonToString: the JSON text of a value (a string is quoted, an
\* object of strings is written member by member).
JsonToString(x) ==
    IF IsStr(x) THEN Str("\"" \o x.v \o "\"")
    ELSE Str("{" \o JoinMembers(x.v, 1, TRUE) \o "}")

(***************************************************************************)
(* Event kinds and the event manager's registry of sources (utils).        *)
(***************************************************************************)
ONBOARDING_REQUEST  == "onboardingRequest"
OFFBOARDING_REQUEST == "offboardingRequest"
PROVISION_SUCCESS   == "provisionSuccess"
PROVISION_FAILURE   == "provisionFailure"
DEPROVISION_SUCCESS == "deprovisionSuccess"
DEPROVISION_FAILURE == "deprovisionFailure"

DetailType ==
    {ONBOARDING_REQUEST, OFFBOARDING_REQUEST, PROVISION_SUCCESS,
     PROVISION_FAILURE, DEPROVISION_SUCCESS, DEPROVISION_FAILURE}

\* props.eventManager.supportedEvents: event kind -> registered source.
supportedEvents ==
    [k \in DetailType |->
        IF k \in {ONBOARDING_REQUEST, OFFBOARDING_REQUEST}
        THEN "controlPlaneEventSource"
        ELSE IF k \in {PROVISION_SUCCESS, DEPROVISION_SUCCESS}
             THEN "applicationPlaneEventSource"
             ELSE "applicationPlaneFailureSource"]

(***************************************************************************)
(* Job properties.                                                         *)
(***************************************************************************)
Range(seq) == {seq[i] : i \in DOMAIN seq}

\* TenantLifecycleLambdaScriptJobProps: what the caller of a lifecycle job
\* supplies.  An absent optional list is the empty list (?.forEach).
TenantLifecycleLambdaScriptJobProps ==
    [script : {"provision.sh"},
     environmentStringVariablesFromIncomingEvent : {<<>>, <<"tier">>},
     environmentJSONVariablesFromIncomingEvent : {<<>>, <<"config", "tier">>},
     environmentVariablesToOutgoingEvent : {<<>>, <<"dbEndpoint">>},
     scriptEnvironmentVariables : {("region" :> "us-east-1") @@ ("tier" :> "standard")},
     eventManager : {[supportedEvents |-> supportedEvents]}]

\* A provisioning job whose failure kind is the deprovisioning one.
ProvisioningLambdaScriptJobOtherFailureKind(p) ==
    [script |-> p.script,
     environmentStringVariablesFromIncomingEvent |->
         p.environmentStringVariablesFromIncomingEvent,
     environmentJSONVariablesFromIncomingEvent |->
         p.environmentJSONVariablesFromIncomingEvent,
     environmentVariablesToOutgoingEvent |-> p.environmentVariablesToOutgoingEvent,
     scriptEnvironmentVariables |-> p.scriptEnvironmentVariables,
     eventManager |-> p.eventManager,
     jobIdentifierKey |-> "tenantId",
     jobFailureStatus |-> Obj("tenantStatus" :> Str("Failed to provision tenant.")),
     incomingEvent |-> ONBOARDING_REQUEST,
     outgoingEvent |-> [success |-> PROVISION_SUCCESS, failure |-> DEPROVISION_FAILURE]]

\* lambdaScriptJobProps of ProvisioningLambdaScriptJob's constructor.
ProvisioningLambdaScriptJob(p) ==
    [script |-> p.script,
     environmentStringVariablesFromIncomingEvent |->
         p.environmentStringVariablesFromIncomingEvent,
     environmentJSONVariablesFromIncomingEvent |->
         p.environmentJSONVariablesFromIncomingEvent,
     environmentVariablesToOutgoingEvent |-> p.environmentVariablesToOutgoingEvent,
     scriptEnvironmentVariables |-> p.scriptEnvironmentVariables,
     eventManager |-> p.eventManager,
     jobIdentifierKey |-> "tenantId",
     jobFailureStatus |-> Obj("tenantStatus" :> Str("Failed to provision tenant.")),
     incomingEvent |-> ONBOARDING_REQUEST,
     outgoingEvent |-> [success |-> PROVISION_SUCCESS, failure |-> PROVISION_FAILURE]]

\* lambdaScriptJobProps of DeprovisioningLambdaScriptJob's constructor.
DeprovisioningLambdaScriptJob(p) ==
    [script |-> p.script,
     environmentStringVariablesFromIncomingEvent |->
         p.environmentStringVariablesFromIncomingEvent,
     environmentJSONVariablesFromIncomingEvent |->
         p.environmentJSONVariablesFromIncomingEvent,
     environmentVariablesToOutgoingEvent |-> p.environmentVariablesToOutgoingEvent,
     scriptEnvironmentVariables |-> p.scriptEnvironmentVariables,
     eventManager |-> p.eventManager,
     jobIdentifierKey |-> "tenantId",
     jobFailureStatus |-> Obj("tenantStatus" :> Str("Failed to deprovision tenant.")),
     incomingEvent |-> OFFBOARDING_REQUEST,
     outgoingEvent |-> [success |-> DEPROVISION_SUCCESS, failure |-> DEPROVISION_FAILURE]]

\* The ScriptJobProps a job of the model is constructed with.
ScriptJobProps ==
    {ProvisioningLambdaScriptJob(p) : p \in TenantLifecycleLambdaScriptJobProps}
    \cup {DeprovisioningLambdaScriptJob(p) : p \in TenantLifecycleLambdaScriptJobProps}

(***************************************************************************)
(* Incoming events.                                                        *)
(***************************************************************************)
Without(f, k) == [n \in DOMAIN f \ {k} |-> f[n]]

FullDetail(id) ==
    "tenantId" :> Str(id) @@ "tier" :> Str("premium")
        @@ "config" :> Obj("size" :> Str("large"))
        @@ "script" :> Str("echo " \o id)

\* The details an incoming event may carry: complete ones for two tenants,
\* and ones that lack the identifier or a declared variable.
Details ==
    {FullDetail("t1"), FullDetail("t2"),
     Without(FullDetail("t1"), "tenantId"),
     Without(FullDetail("t1"), "tier"),
     Without(FullDetail("t1"), "config")}

\* The events the rule of the job's incomingEvent delivers to eventTarget.
IncomingEvents(p) ==
    [detailType : {p.incomingEvent},
     source : {p.eventManager.supportedEvents[p.incomingEvent]},
     detail : Details]

(***************************************************************************)
(* The script runners.  A run of the script ends with an exit status, what *)
(* it wrote to stdout and what it wrote to stderr.                         *)
(***************************************************************************)
Stdouts == {"{\"dbEndpoint\":\"db.example.com\"}", "done"}
Stderrs == {"", "permission denied"}

ScriptRuns == [exit : {0, 1}, stdout : Stdouts, stderr : Stderrs]

\* An inline handler that treats stderr as the tenantprov handler does.
inlineHandlerStderrFails(run) ==
    IF run.exit # 0 \/ run.stderr # ""
    THEN [kind |-> "rejected", value |-> ("error" :> Str(run.stderr))]
    ELSE [kind |-> "resolved", value |-> ("output" :> Str(run.stdout))]

\* The inline handler of createLambdaFunction: exec's callback rejects with
\* {error: stderr} when exec reports an error (a non-zero exit), and
\* resolves {output: stdout} otherwise, whatever stderr holds.
inlineHandler(run) ==
    IF run.exit # 0
    THEN [kind |-> "rejected", value |-> ("error" :> Str(run.stderr))]
    ELSE [kind |-> "resolved", value |-> ("output" :> Str(run.stdout))]

\* event.script || '#!/bin/bash\necho "No script provided!"'
scriptContent(event) ==
    IF "script" \in DOMAIN event /\ event["script"] # Str("")
    THEN event["script"].v
    ELSE "#!/bin/bash\necho \"No script provided!\""

\* createLambdaFunction's environmentVariables: the function's environment
\* is the job's scriptEnvironmentVariables, fixed when the job is built.
environmentVariables(p) == p.scriptEnvironmentVariables

\* The environment the script runs with when the handler is invoked with
\* `event`: exec is called without an env option, so the script inherits
\* the function's environment; neither handler copies a field of `event`
\* into it.
execEnvironment(p, event) == environmentVariables(p)

\* The ways a run of /bin/bash /tmp/prov-script.sh may end when the file
\* holds `content`: the default script prints its one line when it runs,
\* a script `echo <word>` prints the word, any other script anything.
RunsOf(content) ==
    IF content = "#!/bin/bash\necho \"No script provided!\""
    THEN [exit : {0, 1}, stdout : {"No script provided!\n"}, stderr : Stderrs]
    ELSE IF \E w \in {"t1", "t2"} : content = "echo " \o w
    THEN [exit : {0, 1},
          stdout : {w \o "\n" : w \in {v \in {"t1", "t2"} : content = "echo " \o v}},
          stderr : Stderrs]
    ELSE ScriptRuns

\* The tenantprov handler without its try/catch: what is thrown rejects.
tenantprovHandlerUncaught(event, writeFails, run) ==
    IF writeFails
    THEN [kind |-> "rejected",
          value |-> ("error" :> Str("EACCES: permission denied, open '/tmp/prov-script.sh'"))]
    ELSE IF run.exit # 0
    THEN [kind |-> "rejected",
          value |-> ("error" :>
              Str("Command failed: /bin/bash /tmp/prov-script.sh\n" \o run.stderr))]
    ELSE IF run.stderr # ""
    THEN [kind |-> "rejected",
          value |-> ("error" :> Str("Script execution error: " \o run.stderr))]
    ELSE [kind |-> "resolved", value |-> ("output" :> Str(run.stdout))]

\* The docker tenantprov handler, `run` being how the run of
\* scriptContent(event) ended: everything thrown inside the try (a failed
\* write of the script file, a non-zero exit, a non-empty stderr) is caught
\* and returned as {error: message}; the handler itself never rejects.
tenantprovHandler(event, writeFails, run) ==
    IF writeFails
    THEN [kind |-> "resolved",
          value |-> ("error" :> Str("EACCES: permission denied, open '/tmp/prov-script.sh'"))]
    ELSE IF run.exit # 0
    THEN [kind |-> "resolved",
          value |-> ("error" :>
              Str("Command failed: /bin/bash /tmp/prov-script.sh\n" \o run.stderr))]
    ELSE IF run.stderr # ""
    THEN [kind |-> "resolved",
          value |-> ("error" :> Str("Script execution error: " \o run.stderr))]
    ELSE [kind |-> "resolved", value |-> ("output" :> Str(run.stdout))]

Runners == {"inline", "tenantprov"}

\* /tmp/prov-script.sh does not exist (yet) in an execution environment.
NoFile == ""

\* What the function behind jobRunnerLambdaFunction answers to one
\* invocation with the given event.  The tenantprov handler has by then
\* written the script file or failed to (`wrote`), and bash runs what the
\* file of its execution environment holds (`file`) when exec starts.
InvokeResults(r, event, wrote, file) ==
    IF r = "inline"
    THEN {inlineHandler(run) : run \in ScriptRuns}
    ELSE IF ~wrote
    THEN {tenantprovHandler(event, TRUE, run) : run \in ScriptRuns}
    ELSE {tenantprovHandler(event, FALSE, run) : run \in RunsOf(file)}

\* Errors of an invocation that never reaches, or never returns from, the
\* handler: the function's timeout and errors of the Lambda service.
InvokeFaults == {"Sandbox.Timedout", "Lambda.ServiceException"}

(***************************************************************************)
(* The workflow of createProvisioningStateMachine.                         *)
(***************************************************************************)
successEventSource(p) == p.eventManager.supportedEvents[p.outgoingEvent.success]
failureEventSource(p) == p.eventManager.supportedEvents[p.outgoingEvent.failure]

\* environmentVariablesOverride: name -> how its value is read from the
\* event ($.detail.<name>).  The JSON loop runs second, so it overwrites
\* the entry of a name both lists declare.
environmentVariablesOverride(p) ==
    [n \in Range(p.environmentStringVariablesFromIncomingEvent)
            \cup Range(p.environmentJSONVariablesFromIncomingEvent) |->
        IF n \in Range(p.environmentJSONVariablesFromIncomingEvent)
        THEN "jsonToString"
        ELSE "stringAt"]

\* Every path of startLambda's payload is found in the state input.
startLambdaPayloadResolves(p, input) ==
    \A n \in DOMAIN environmentVariablesOverride(p) : n \in DOMAIN input.detail

\* The payload startLambda invokes the function with.
startLambdaPayload(p, input) ==
    [n \in DOMAIN environmentVariablesOverride(p) |->
        IF environmentVariablesOverride(p)[n] = "jsonToString"
        THEN JsonToString(input.detail[n])
        ELSE input.detail[n]]

\* $.startLambda.Payload.output.<name> is found in the state.
OutputPathResolves(startLambda, name) ==
    /\ "Payload" \in DOMAIN startLambda
    /\ "output" \in DOMAIN startLambda["Payload"]
    /\ IsObj(startLambda["Payload"]["output"])
    /\ name \in DOMAIN startLambda["Payload"]["output"].v

\* Every path of exportedVarObj is found in the state.
exportedVarObjResolves(p, x) ==
    /\ p.jobIdentifierKey \in DOMAIN x.input.detail
    /\ \A n \in Range(p.environmentVariablesToOutgoingEvent) :
           OutputPathResolves(x.startLambda, n)

\* exportedVarObj with its paths replaced by the values found.
exportedVarObj(p, x) ==
    (p.jobIdentifierKey :> x.input.detail[p.jobIdentifierKey])
    @@ ("jobOutput" :>
           Obj([n \in Range(p.environmentVariablesToOutgoingEvent) |->
                   x.startLambda["Payload"]["output"].v[n]]))

\* The success entry with the source registered for the failure kind.
notifySuccessEntrySwappedSource(p, x) ==
    [detailType |-> p.outgoingEvent.success,
     detail |-> exportedVarObj(p, x),
     source |-> failureEventSource(p)]

\* The entry notifySuccessEventBridgeTask puts on the bus.
notifySuccessEntry(p, x) ==
    [detailType |-> p.outgoingEvent.success,
     detail |-> exportedVarObj(p, x),
     source |-> successEventSource(p)]

\* Every path of the failure detail is found in the state.
notifyFailureDetailResolves(p, x) ==
    p.jobIdentifierKey \in DOMAIN x.input.detail

\* The failure entry with the caught error's text as the tenant status.
notifyFailureEntryLeaksCause(p, x) ==
    [detailType |-> p.outgoingEvent.failure,
     detail |-> (p.jobIdentifierKey :> x.input.detail[p.jobIdentifierKey])
                @@ ("jobOutput" :>
                       Obj("tenantStatus" :> Str(x.startLambda["Catch"].Cause))),
     source |-> failureEventSource(p)]

\* The failure entry with the identifier read from another path of the
\* event ($.detail.tier).
notifyFailureEntryWrongPath(p, x) ==
    [detailType |-> p.outgoingEvent.failure,
     detail |-> (p.jobIdentifierKey :>
                    IF "tier" \in DOMAIN x.input.detail
                    THEN x.input.detail["tier"]
                    ELSE Str(""))
                @@ ("jobOutput" :> p.jobFailureStatus),
     source |-> failureEventSource(p)]

\* The entry notifyFailureEventBridgeTask puts on the bus.
notifyFailureEntry(p, x) ==
    [detailType |-> p.outgoingEvent.failure,
     detail |-> (p.jobIdentifierKey :> x.input.detail[p.jobIdentifierKey])
                @@ ("jobOutput" :> p.jobFailureStatus),
     source |-> failureEventSource(p)]

\* A Retry of every error (errors: States.ALL).
startLambdaRetriesAll(error, retried) ==
    retried < 6

\* The Retry that tasks.LambdaInvoke adds to startLambda unless
\* retryOnServiceExceptions is set to false (it is not set).
RetryErrors ==
    {"Lambda.ClientExecutionTimeoutException", "Lambda.ServiceException",
     "Lambda.AWSLambdaException", "Lambda.SdkClientException"}

MaxAttempts == 6

\* The Retry invokes again when the error is one of RetryErrors and fewer
\* than MaxAttempts retries were made.
startLambdaRetries(error, retried) ==
    error \in RetryErrors /\ retried < MaxAttempts

\* Errors no Catch matches, States.ALL included.
Uncatchable == {"States.Runtime", "States.DataLimitExceeded"}

\* A Catch of startLambda that a failure to build the payload reaches too.
TaskCatchRuntimeToo(state, error) ==
    IF state = "startLambda"
    THEN "notifyFailureEventBridgeTask"
    ELSE ""

\* A Catch added to every state of the chain instead of startLambda alone.
TaskCatchEveryState(state, error) ==
    IF error \notin {"States.Runtime", "States.DataLimitExceeded"}
    THEN "notifyFailureEventBridgeTask"
    ELSE ""

\* The state the Catch of `state` sends `error` to, "" when it has none:
\* addCatch is called on startLambdaTask only, with errors States.ALL.
TaskCatch(state, error) ==
    IF state = "startLambda" /\ error \notin Uncatchable
    THEN "notifyFailureEventBridgeTask"
    ELSE ""

Running ==
    {"startLambda", "invoking", "notifySuccessEventBridgeTask",
     "notifyFailureEventBridgeTask"}
Terminal == {"SUCCEEDED", "FAILED", "TIMED_OUT"}

\* A failed task without a Catch that lets the execution end as succeeded.
TaskFailedUnreported(x, state, error, cause) ==
    IF TaskCatch(state, error) # ""
    THEN [x EXCEPT !.pc = TaskCatch(state, error), !.retried = 0, !.lastError = "",
                   !.env = 0,
                   !.startLambda = ("Catch" :> [Error |-> error, Cause |-> cause])]
    ELSE [x EXCEPT !.pc = "SUCCEEDED", !.retried = 0, !.lastError = "",
                   !.env = 0,
                   !.error = error, !.failedAt = state]

\* The state a task named `state` leaves execution x in when it fails with
\* `error`: the Catch's target, with the error stored under
\* $.startLambda.Catch, or the end of the execution.
TaskFailed(x, state, error, cause) ==
    IF TaskCatch(state, error) # ""
    THEN [x EXCEPT !.pc = TaskCatch(state, error), !.retried = 0, !.lastError = "",
                   !.env = 0,
                   !.startLambda = ("Catch" :> [Error |-> error, Cause |-> cause])]
    ELSE [x EXCEPT !.pc = "FAILED", !.retried = 0, !.lastError = "",
                   !.env = 0,
                   !.error = error, !.failedAt = state]

\* startLambda's invocation failed with `error`: the Retry invokes the
\* function again when it matches, the Catch takes over otherwise.
startLambdaFailed(x, error, cause) ==
    IF startLambdaRetries(error, x.retried)
    THEN [x EXCEPT !.retried = @ + 1, !.lastError = error]
    ELSE TaskFailed(x, "startLambda", error, cause)

NoEvent == [detailType |-> "", source |-> "", detail |-> <<>>]

NewExecution ==
    [pc |-> "idle", input |-> NoEvent, startLambda |-> <<>>, invoked |-> FALSE,
     retried |-> 0, lastError |-> "", error |-> "", failedAt |-> "",
     env |-> 0]

\* The execution environments of the function.
Environments == DOMAIN tmp

\* Environments that run several invocations at a time: an invocation may
\* start in any of them.
SharedEnvironments(h) ==
    Environments

\* The environments an invocation made for execution h may start in: an
\* environment runs one invocation at a time, so those in which no handler
\* invoked for another execution is about to run its script.
FreeEnvironments(h) ==
    {s \in Environments :
        \A g \in DOMAIN executions \ {h} : executions[g].env # s}

\* Execution x once the function is invoked for it: the tenantprov handler
\* starts in environment s and writes its script there (`written`), or
\* fails to write it and touches no file (env stays 0); the inline handler
\* writes no file.
handlerStarts(x, r, s, written) ==
    [x EXCEPT !.pc = "invoking", !.invoked = TRUE,
              !.env = IF r = "tenantprov" /\ written THEN s ELSE 0]

\* The script files once that handler has started:
\* writeFileAsync(scriptPath, scriptContent), scriptPath being the same in
\* every invocation.
writeFileAsync(p, x, r, s, written) ==
    IF r = "tenantprov" /\ written
    THEN [tmp EXCEPT ![s] = scriptContent(startLambdaPayload(p, x.input))]
    ELSE tmp

Init ==
    /\ props \in ScriptJobProps
    /\ runner \in Runners
    /\ executions = [h \in 1..MaxExecutions |-> NewExecution]
    /\ bus = {}
    /\ tmp = [s \in 1..MaxExecutions |-> NoFile]

\* A workflow whose first state is notifySuccessEventBridgeTask.
DeliverToNotifySuccess(h, e) ==
    /\ executions[h].pc = "idle"
    /\ h > 1 => executions[h - 1].pc # "idle"
    /\ executions' = [executions EXCEPT ![h] =
           [@ EXCEPT !.pc = "notifySuccessEventBridgeTask", !.input = e]]
    /\ UNCHANGED <<props, runner, bus, tmp>>

\* The rule of the incoming event starts an execution with the event as
\* its input.
Deliver(h, e) ==
    /\ executions[h].pc = "idle"
    /\ h > 1 => executions[h - 1].pc # "idle"
    /\ executions' = [executions EXCEPT ![h] = [@ EXCEPT !.pc = "startLambda", !.input = e]]
    /\ UNCHANGED <<props, runner, bus, tmp>>

\* startLambda is entered: a path of its payload is missing and the state
\* fails, or the payload is built from the input and the function is
\* invoked; the script itself runs in LambdaReturns.
StartLambda(h) ==
    /\ executions[h].pc = "startLambda"
    /\ IF ~startLambdaPayloadResolves(props, executions[h].input)
       THEN /\ executions' = [executions EXCEPT ![h] =
                   TaskFailed(@, "startLambda", "States.Runtime", "path not found")]
            /\ tmp' = tmp
       ELSE IF runner = "inline"
       THEN /\ executions' = [executions EXCEPT ![h] =
                   handlerStarts(@, runner, 0, FALSE)]
            /\ tmp' = tmp
       ELSE \E s \in FreeEnvironments(h) : \E written \in BOOLEAN :
                /\ executions' = [executions EXCEPT ![h] =
                       handlerStarts(@, runner, s, written)]
                /\ tmp' = writeFileAsync(props, executions[h], runner, s, written)
    /\ UNCHANGED <<props, runner, bus>>

\* The invocation returns the handler's answer, or its rejection.
LambdaReturns(h) ==
    /\ executions[h].pc = "invoking"
    /\ \E res \in InvokeResults(runner, startLambdaPayload(props, executions[h].input),
                                 executions[h].env # 0,
                                 IF executions[h].env # 0 THEN tmp[executions[h].env]
                                 ELSE NoFile) :
           executions' = [executions EXCEPT ![h] =
               IF res.kind = "resolved"
               THEN [@ EXCEPT !.pc = "notifySuccessEventBridgeTask", !.retried = 0,
                              !.lastError = "", !.env = 0,
                              !.startLambda = ("Payload" :> res.value)]
               ELSE startLambdaFailed(@, "FunctionError", res.value["error"].v)]
    /\ UNCHANGED <<props, runner, bus, tmp>>

\* The invocation fails outside the handler (the function times out, the
\* Lambda service fails).  When the Retry matches, the function is invoked
\* again, the handler starting anew.
LambdaFaults(h, f) ==
    /\ executions[h].pc = "invoking"
    /\ f \in InvokeFaults
    /\ IF ~startLambdaRetries(f, executions[h].retried)
       THEN /\ executions' = [executions EXCEPT ![h] = startLambdaFailed(@, f, "")]
            /\ tmp' = tmp
       ELSE IF runner = "inline"
       THEN /\ executions' = [executions EXCEPT ![h] =
                   handlerStarts(startLambdaFailed(@, f, ""), runner, 0, FALSE)]
            /\ tmp' = tmp
       ELSE \E s \in FreeEnvironments(h) : \E written \in BOOLEAN :
                /\ executions' = [executions EXCEPT ![h] =
                       handlerStarts(startLambdaFailed(@, f, ""), runner, s, written)]
                /\ tmp' = writeFileAsync(props, executions[h], runner, s, written)
    /\ UNCHANGED <<props, runner, bus>>

\* A bus that drops an entry equal to one it already holds.
PutEventsDeduplicated(h, entry) ==
    IF \E e \in bus : /\ e.detailType = entry.detailType
                      /\ e.source = entry.source
                      /\ e.detail = entry.detail
    THEN bus
    ELSE bus \cup {[execution |-> h, detailType |-> entry.detailType,
                     source |-> entry.source, detail |-> entry.detail]}

\* What the bus holds once execution h has put `entry` on it.
PutEvents(h, entry) ==
    bus \cup {[execution |-> h, detailType |-> entry.detailType,
                source |-> entry.source, detail |-> entry.detail]}

\* notifySuccessEventBridgeTask: the detail is built from the state and the
\* entry is put on the bus; a missing path or a failed put fails the task.
NotifySuccess(h, put) ==
    /\ executions[h].pc = "notifySuccessEventBridgeTask"
    /\ IF ~exportedVarObjResolves(props, executions[h])
       THEN /\ executions' = [executions EXCEPT ![h] =
                   TaskFailed(@, "notifySuccessEventBridgeTask", "States.Runtime",
                              "path not found")]
            /\ bus' = bus
       ELSE IF put
       THEN /\ executions' = [executions EXCEPT ![h] = [@ EXCEPT !.pc = "SUCCEEDED"]]
            /\ bus' = PutEvents(h, notifySuccessEntry(props, executions[h]))
       ELSE /\ executions' = [executions EXCEPT ![h] =
                   TaskFailed(@, "notifySuccessEventBridgeTask",
                              "EventBridge.FailedEntry", "")]
            /\ bus' = bus
    /\ UNCHANGED <<props, runner, tmp>>

\* notifyFailureEventBridgeTask, likewise, with the fixed jobFailureStatus.
NotifyFailure(h, put) ==
    /\ executions[h].pc = "notifyFailureEventBridgeTask"
    /\ IF ~notifyFailureDetailResolves(props, executions[h])
       THEN /\ executions' = [executions EXCEPT ![h] =
                   TaskFailed(@, "notifyFailureEventBridgeTask", "States.Runtime",
                              "path not found")]
            /\ bus' = bus
       ELSE IF put
       THEN /\ executions' = [executions EXCEPT ![h] = [@ EXCEPT !.pc = "SUCCEEDED"]]
            /\ bus' = PutEvents(h, notifyFailureEntry(props, executions[h]))
       ELSE /\ executions' = [executions EXCEPT ![h] =
                   TaskFailed(@, "notifyFailureEventBridgeTask",
                              "EventBridge.FailedEntry", "")]
            /\ bus' = bus
    /\ UNCHANGED <<props, runner, tmp>>

\* The state machine's timeout (one hour) ends a running execution, whose
\* state is dropped.
ExecutionTimeout(h) ==
    /\ executions[h].pc \in Running
    /\ executions' = [executions EXCEPT ![h] =
           [@ EXCEPT !.pc = "TIMED_OUT", !.retried = 0, !.lastError = "",
                     !.env = 0,
                     !.startLambda = <<>>, !.error = "States.Timeout"]]
    /\ UNCHANGED <<props, runner, bus, tmp>>

Next ==
    \/ \E h \in DOMAIN executions : \E e \in IncomingEvents(props) : Deliver(h, e)
    \/ \E h \in DOMAIN executions : StartLambda(h)
    \/ \E h \in DOMAIN executions : LambdaReturns(h)
    \/ \E h \in DOMAIN executions : \E f \in InvokeFaults : LambdaFaults(h, f)
    \/ \E h \in DOMAIN executions : \E put \in BOOLEAN : NotifySuccess(h, put)
    \/ \E h \in DOMAIN executions : \E put \in BOOLEAN : NotifyFailure(h, put)
    \/ \E h \in DOMAIN executions : ExecutionTimeout(h)

\* Every job configuration, MaxExecutions executions.
Spec == Init /\ [][Next]_vars

\* The same, with the service's guarantees of progress: a state that was
\* entered runs, an invocation returns or fails, a put returns.  Nothing
\* obliges an incoming event to arrive or the timeout to strike.
SpecFair ==
    /\ Spec
    /\ \A h \in 1..MaxExecutions :
           /\ WF_vars(StartLambda(h))
           /\ WF_vars(LambdaReturns(h))
           /\ WF_vars(\E put \in BOOLEAN : NotifySuccess(h, put))
           /\ WF_vars(\E put \in BOOLEAN : NotifyFailure(h, put))

\* One provisioning job run by the inline handler, MaxConcurrent executions.
InitPair ==
    /\ props = ProvisioningLambdaScriptJob(
                   [script |-> "provision.sh",
                    environmentStringVariablesFromIncomingEvent |-> <<"tier">>,
                    environmentJSONVariablesFromIncomingEvent |-> <<>>,
                    environmentVariablesToOutgoingEvent |-> <<>>,
                    scriptEnvironmentVariables |->
                        ("region" :> "us-east-1") @@ ("tier" :> "standard"),
                    eventManager |-> [supportedEvents |-> supportedEvents]])
    /\ runner = "inline"
    /\ executions = [h \in 1..MaxConcurrent |-> NewExecution]
    /\ bus = {}
    /\ tmp = [s \in 1..MaxConcurrent |-> NoFile]

SpecPair == InitPair /\ [][Next]_vars

\* One provisioning job run by the tenantprov handler, which is sent the
\* script of the incoming event, MaxConcurrent executions.
InitTenantprov ==
    /\ props = ProvisioningLambdaScriptJob(
                   [script |-> "provision.sh",
                    environmentStringVariablesFromIncomingEvent |-> <<"script", "tier">>,
                    environmentJSONVariablesFromIncomingEvent |-> <<"config">>,
                    environmentVariablesToOutgoingEvent |-> <<>>,
                    scriptEnvironmentVariables |->
                        ("region" :> "us-east-1") @@ ("tier" :> "standard"),
                    eventManager |-> [supportedEvents |-> supportedEvents]])
    /\ runner = "tenantprov"
    /\ executions = [h \in 1..MaxConcurrent |-> NewExecution]
    /\ bus = {}
    /\ tmp = [s \in 1..MaxConcurrent |-> NoFile]

SpecTenantprov == InitTenantprov /\ [][Next]_vars

(***************************************************************************)
(* Vocabulary of the properties.                                           *)
(***************************************************************************)
\* The outgoing events execution h has published.
EntriesOf(h) == {e \in bus : e.execution = h}

\* The names the job declares it reads from the incoming event.
DeclaredNames(p) ==
    Range(p.environmentStringVariablesFromIncomingEvent)
        \cup Range(p.environmentJSONVariablesFromIncomingEvent)

\* The input of x holds the identifier and every declared name.
WellFormed(p, x) ==
    /\ p.jobIdentifierKey \in DOMAIN x.input.detail
    /\ DeclaredNames(p) \subseteq DOMAIN x.input.detail

\* The function answered {output: ...} / answered {error: ...} / the
\* invocation failed and the Catch of startLambda was taken.
ReturnedOutput(x) ==
    "Payload" \in DOMAIN x.startLambda /\ "output" \in DOMAIN x.startLambda["Payload"]
ReturnedError(x) ==
    "Payload" \in DOMAIN x.startLambda /\ "error" \in DOMAIN x.startLambda["Payload"]
BackendFailed(x) == "Catch" \in DOMAIN x.startLambda

\* The handling is over, and neither the workflow's timeout nor a failed
\* put on the bus ended it.
Handled(x) ==
    /\ x.pc \in {"SUCCEEDED", "FAILED"}
    /\ x.error \notin {"States.Timeout", "EventBridge.FailedEntry"}

IsSuccessEvent(e) == e.detailType = props.outgoingEvent.success
IsFailureEvent(e) == e.detailType = props.outgoingEvent.failure

(***************************************************************************)
(* C1: a handling of a well-formed incoming event (identifier and every    *)
(* declared name present) publishes exactly one outgoing event, of the     *)
(* success kind or of the failure kind, whatever the function returns or   *)
(* raises.  Stated for the handlings that neither the workflow's timeout   *)
(* nor a failed put ended.  The code violates it: a function that returns  *)
(* normally when the job declares an output name ends the handling in      *)
(* States.Runtime at notifySuccessEventBridgeTask, with no event.          *)
(***************************************************************************)
C1_ExactlyOneOutgoingEvent ==
    \A h \in DOMAIN executions :
        (Handled(executions[h]) /\ WellFormed(props, executions[h]))
            => /\ Cardinality(EntriesOf(h)) = 1
               /\ \A e \in EntriesOf(h) : IsSuccessEvent(e) \/ IsFailureEvent(e)

(***************************************************************************)
(* C2: in every reachable state a handling has published at most one       *)
(* outgoing event, and no step leads from notifySuccessEventBridgeTask to  *)
(* notifyFailureEventBridgeTask (a failed success publish is not caught).  *)
(***************************************************************************)
C2_AtMostOneOutgoingEvent ==
    /\ [](\A h \in DOMAIN executions : Cardinality(EntriesOf(h)) <= 1)
    /\ [][\A h \in DOMAIN executions :
              executions[h].pc = "notifySuccessEventBridgeTask"
                  => executions'[h].pc # "notifyFailureEventBridgeTask"]_vars

\* The success publish failed: the execution has ended FAILED there, with
\* nothing published.
C2_Witness ==
    \E h \in DOMAIN executions :
        /\ executions[h].pc = "FAILED"
        /\ executions[h].failedAt = "notifySuccessEventBridgeTask"
        /\ executions[h].error = "EventBridge.FailedEntry"
        /\ EntriesOf(h) = {}

(***************************************************************************)
(* C3: when the invocation of the function fails (the handler rejects      *)
(* after a non-zero exit, the function times out, the Lambda service       *)
(* fails for good) the outgoing event is of the failure kind and its       *)
(* jobOutput is the job's jobFailureStatus; two handlings of the same      *)
(* incoming event whose invocations failed publish identical events,       *)
(* whatever the error and its text were.                                   *)
(***************************************************************************)
C3_FailureEventIsFixed ==
    /\ \A h \in DOMAIN executions :
           BackendFailed(executions[h])
               => \A e \in EntriesOf(h) :
                      /\ IsFailureEvent(e)
                      /\ e.detail["jobOutput"] = props.jobFailureStatus
    /\ \A h1, h2 \in DOMAIN executions :
           (/\ BackendFailed(executions[h1])
            /\ BackendFailed(executions[h2])
            /\ executions[h1].input = executions[h2].input)
               => \A e1 \in EntriesOf(h1), e2 \in EntriesOf(h2) :
                      /\ e1.detailType = e2.detailType
                      /\ e1.source = e2.source
                      /\ e1.detail = e2.detail

\* Two handlings of the same event failed with different error texts and
\* each has published its event.
C3_Witness ==
    \E h1, h2 \in DOMAIN executions :
        /\ BackendFailed(executions[h1]) /\ BackendFailed(executions[h2])
        /\ executions[h1].input = executions[h2].input
        /\ executions[h1].startLambda["Catch"].Cause = "permission denied"
        /\ executions[h2].startLambda["Catch"].Cause # "permission denied"
        /\ EntriesOf(h1) # {} /\ EntriesOf(h2) # {}

(***************************************************************************)
(* C4: when the function answers {error: ...} normally (as the docker      *)
(* tenantprov handler does) the handling publishes the failure event with  *)
(* jobFailureStatus and no success event.  The code violates it: the       *)
(* answer is a successful invocation, so notifySuccessEventBridgeTask      *)
(* runs.                                                                   *)
(***************************************************************************)
C4_ErrorResultTakesFailureBranch ==
    \A h \in DOMAIN executions :
        ReturnedError(executions[h])
            => /\ \A e \in EntriesOf(h) : IsFailureEvent(e)
               /\ (Handled(executions[h]) /\ WellFormed(props, executions[h]))
                      => \E e \in EntriesOf(h) :
                             /\ IsFailureEvent(e)
                             /\ e.detail["jobOutput"] = props.jobFailureStatus

\* The record a function's output stands for: the output itself when it is
\* an object, the record its text serializes when it is a string.
OutputFields(output) ==
    IF IsObj(output) THEN output.v
    ELSE IF output.v = "{\"dbEndpoint\":\"db.example.com\"}"
         THEN ("dbEndpoint" :> Str("db.example.com"))
         ELSE <<>>

\* The declared output names found in the output, with their values.
ExpectedJobOutput(p, output) ==
    Obj([n \in Range(p.environmentVariablesToOutgoingEvent)
                \cap DOMAIN OutputFields(output) |-> OutputFields(output)[n]])

(***************************************************************************)
(* C5: when the function returns {output} the outgoing event is of the     *)
(* success kind and its jobOutput holds exactly the declared output names  *)
(* present in the output, each with the output's value.  The code          *)
(* violates it: with a declared output name no success event is published  *)
(* at all (see C6, C13).                                                   *)
(***************************************************************************)
C5_SuccessEventCarriesDeclaredOutputs ==
    \A h \in DOMAIN executions :
        (/\ ReturnedOutput(executions[h])
         /\ Handled(executions[h])
         /\ WellFormed(props, executions[h]))
            => \E e \in EntriesOf(h) :
                   /\ IsSuccessEvent(e)
                   /\ e.detail["jobOutput"] =
                          ExpectedJobOutput(props, executions[h].startLambda["Payload"]["output"])

(***************************************************************************)
(* C6: when the function succeeds and its output lacks a declared output   *)
(* name, the success event is still published, without that name.  The     *)
(* code violates it: the missing path fails notifySuccessEventBridgeTask   *)
(* with States.Runtime and nothing is published.                           *)
(***************************************************************************)
C6_MissingOutputNameIsOmitted ==
    \A h \in DOMAIN executions :
        (/\ ReturnedOutput(executions[h])
         /\ Handled(executions[h])
         /\ WellFormed(props, executions[h])
         /\ \E n \in Range(props.environmentVariablesToOutgoingEvent) :
                n \notin DOMAIN OutputFields(executions[h].startLambda["Payload"]["output"]))
            => \E e \in EntriesOf(h) :
                   /\ IsSuccessEvent(e)
                   /\ \A n \in Range(props.environmentVariablesToOutgoingEvent) :
                          n \notin DOMAIN OutputFields(
                                       executions[h].startLambda["Payload"]["output"])
                              => n \notin DOMAIN e.detail["jobOutput"].v

(***************************************************************************)
(* C7: in every outgoing event, success or failure, the field named        *)
(* jobIdentifierKey holds the value of that field in the detail of the     *)
(* incoming event the execution was started with.                          *)
(***************************************************************************)
C7_IdentifierPassThrough ==
    \A e \in bus :
        /\ props.jobIdentifierKey \in DOMAIN e.detail
        /\ props.jobIdentifierKey \in DOMAIN executions[e.execution].input.detail
        /\ e.detail[props.jobIdentifierKey] =
               executions[e.execution].input.detail[props.jobIdentifierKey]

\* A success event for tenant t2 is on the bus.
C7_Witness ==
    \E e \in bus : IsSuccessEvent(e) /\ e.detail[props.jobIdentifierKey] = Str("t2")

(***************************************************************************)
(* C8: an incoming event whose detail lacks a name declared in             *)
(* environmentStringVariablesFromIncomingEvent or                          *)
(* environmentJSONVariablesFromIncomingEvent is rejected: the function is  *)
(* never invoked and no outgoing event is published.                       *)
(***************************************************************************)
C8_MissingDeclaredNameRejected ==
    \A h \in DOMAIN executions :
        (/\ executions[h].pc # "idle"
         /\ ~(DeclaredNames(props) \subseteq DOMAIN executions[h].input.detail))
            => /\ ~executions[h].invoked
               /\ EntriesOf(h) = {}

\* An execution whose event lacks a declared name (and holds the
\* identifier) has failed in startLambda.
C8_Witness ==
    \E h \in DOMAIN executions :
        /\ ~(DeclaredNames(props) \subseteq DOMAIN executions[h].input.detail)
        /\ props.jobIdentifierKey \in DOMAIN executions[h].input.detail
        /\ executions[h].pc = "FAILED"
        /\ executions[h].failedAt = "startLambda"
        /\ executions[h].error = "States.Runtime"

(***************************************************************************)
(* C9: an incoming event whose detail lacks jobIdentifierKey is rejected   *)
(* before the function is invoked: no invocation, no outgoing event.  The  *)
(* code violates it: startLambda does not read the identifier, so the      *)
(* function runs, and the execution fails only in the publish step.        *)
(***************************************************************************)
C9_MissingIdentifierRejected ==
    \A h \in DOMAIN executions :
        (/\ executions[h].pc # "idle"
         /\ props.jobIdentifierKey \notin DOMAIN executions[h].input.detail)
            => /\ ~executions[h].invoked
               /\ EntriesOf(h) = {}

StatedEnvironment(p, input) ==
    [n \in DOMAIN p.scriptEnvironmentVariables \cup DeclaredNames(p) |->
        IF n \in DeclaredNames(p)
        THEN startLambdaPayload(p, input)[n].v
        ELSE p.scriptEnvironmentVariables[n]]

(***************************************************************************)
(* C11: the environment the script runs with is the static                 *)
(* scriptEnvironmentVariables plus one entry per name of                   *)
(* environmentStringVariablesFromIncomingEvent and                         *)
(* environmentJSONVariablesFromIncomingEvent, read from the incoming       *)
(* event's detail; an event-derived entry replaces a static entry of the   *)
(* same name.  The code violates it: the event-derived values are the      *)
(* payload of the invocation, which no handler exports, so the script      *)
(* sees the static variables only.                                         *)
(***************************************************************************)
C11_ScriptEnvironmentHasEventValues ==
    \A h \in DOMAIN executions :
        (executions[h].pc = "invoking")
            => execEnvironment(props, startLambdaPayload(props, executions[h].input))
                   = StatedEnvironment(props, executions[h].input)

\* The job was built by ProvisioningLambdaScriptJob / by
\* DeprovisioningLambdaScriptJob.
IsProvisioningJob ==
    \E p \in TenantLifecycleLambdaScriptJobProps : props = ProvisioningLambdaScriptJob(p)
IsDeprovisioningJob ==
    \E p \in TenantLifecycleLambdaScriptJobProps : props = DeprovisioningLambdaScriptJob(p)

(***************************************************************************)
(* C12: a provisioning job is started by onboardingRequest events only,    *)
(* reads the identifier under "tenantId" and publishes nothing but         *)
(* provisionSuccess and provisionFailure, the latter with jobOutput        *)
(* {tenantStatus: "Failed to provision tenant."}; a deprovisioning job is  *)
(* started by offboardingRequest events only, reads the same key and       *)
(* publishes nothing but deprovisionSuccess and deprovisionFailure, the    *)
(* latter with {tenantStatus: "Failed to deprovision tenant."}.  Neither   *)
(* publishes an event kind of the other.                                   *)
(***************************************************************************)
C12_LifecycleJobsKeepTheirKinds ==
    /\ IsProvisioningJob # IsDeprovisioningJob
    /\ IsProvisioningJob =>
           /\ props.jobIdentifierKey = "tenantId"
           /\ \A h \in DOMAIN executions :
                  executions[h].pc # "idle"
                      => executions[h].input.detailType = ONBOARDING_REQUEST
           /\ \A e \in bus :
                  /\ e.detailType \in {PROVISION_SUCCESS, PROVISION_FAILURE}
                  /\ "tenantId" \in DOMAIN e.detail
                  /\ e.detailType = PROVISION_FAILURE
                         => e.detail["jobOutput"] =
                                Obj("tenantStatus" :> Str("Failed to provision tenant."))
    /\ IsDeprovisioningJob =>
           /\ props.jobIdentifierKey = "tenantId"
           /\ \A h \in DOMAIN executions :
                  executions[h].pc # "idle"
                      => executions[h].input.detailType = OFFBOARDING_REQUEST
           /\ \A e \in bus :
                  /\ e.detailType \in {DEPROVISION_SUCCESS, DEPROVISION_FAILURE}
                  /\ "tenantId" \in DOMAIN e.detail
                  /\ e.detailType = DEPROVISION_FAILURE
                         => e.detail["jobOutput"] =
                                Obj("tenantStatus" :> Str("Failed to deprovision tenant."))

\* A provisioning job has published its failure event.
C12_Witness ==
    /\ IsProvisioningJob
    /\ \E e \in bus : e.detailType = PROVISION_FAILURE

(***************************************************************************)
(* C13: when the function's output is the string                           *)
(* '{"dbEndpoint":"db.example.com"}' and the job declares the output name  *)
(* dbEndpoint, the handling of a well-formed event publishes the success   *)
(* event with jobOutput {dbEndpoint: "db.example.com"}: the string is      *)
(* parsed and the name looked up in it.  The code violates it: the path    *)
(* $.startLambda.Payload.output.dbEndpoint is applied to the string        *)
(* itself, is not found, and the execution fails with nothing published.   *)
(***************************************************************************)
C13_StringOutputIsParsed ==
    \A h \in DOMAIN executions :
        (/\ ReturnedOutput(executions[h])
         /\ executions[h].startLambda["Payload"]["output"] =
                Str("{\"dbEndpoint\":\"db.example.com\"}")
         /\ props.environmentVariablesToOutgoingEvent = <<"dbEndpoint">>
         /\ Handled(executions[h])
         /\ WellFormed(props, executions[h]))
            => \E e \in EntriesOf(h) :
                   /\ IsSuccessEvent(e)
                   /\ e.detail["jobOutput"] = Obj("dbEndpoint" :> Str("db.example.com"))

(***************************************************************************)
(* C14: a job whose environmentStringVariablesFromIncomingEvent and        *)
(* environmentJSONVariablesFromIncomingEvent name the same key is rejected *)
(* when it is constructed, so no such job ever handles an event.  The code *)
(* violates it: the constructor checks nothing, the second loop overwrites *)
(* the entry of the first, and the job handles events like any other.      *)
(***************************************************************************)
C14_OverlappingNamesRejected ==
    (Range(props.environmentStringVariablesFromIncomingEvent)
         \cap Range(props.environmentJSONVariablesFromIncomingEvent) # {})
        => \A h \in DOMAIN executions : executions[h].pc = "idle"

(***************************************************************************)
(* C15: a timeout of the function (Sandbox.Timedout) is handled as a       *)
(* failed invocation, the failure event being published, and the workflow  *)
(* has no timeout of its own: no handling ends by a timeout of the         *)
(* workflow without having published an outgoing event.  The code         *)
(* violates the second part: the state machine is created with a timeout   *)
(* of one hour, and an execution it ends has published nothing.            *)
(***************************************************************************)
C15_NoTimeoutOfTheWorkflow ==
    \A h \in DOMAIN executions :
        /\ (/\ BackendFailed(executions[h])
            /\ executions[h].startLambda["Catch"].Error = "Sandbox.Timedout"
            /\ Handled(executions[h])
            /\ WellFormed(props, executions[h]))
               => \E e \in EntriesOf(h) : IsFailureEvent(e)
        /\ executions[h].pc = "TIMED_OUT" => EntriesOf(h) # {}

(***************************************************************************)
(* C16: when the put of the outgoing event fails                           *)
(* (EventBridge.FailedEntry), in notifySuccessEventBridgeTask or in        *)
(* notifyFailureEventBridgeTask, the execution ends FAILED, a status       *)
(* distinct from the SUCCEEDED of a handling that published its success or *)
(* its failure event, and no outgoing event of that handling is on the     *)
(* bus.                                                                    *)
(***************************************************************************)
C16_FailedPublishEndsFailed ==
    \A h \in DOMAIN executions :
        executions[h].error = "EventBridge.FailedEntry"
            => /\ executions[h].pc = "FAILED"
               /\ executions[h].failedAt \in
                      {"notifySuccessEventBridgeTask", "notifyFailureEventBridgeTask"}
               /\ EntriesOf(h) = {}

\* The put of the failure event failed after the invocation had failed.
C16_Witness ==
    \E h \in DOMAIN executions :
        /\ executions[h].error = "EventBridge.FailedEntry"
        /\ executions[h].failedAt = "notifyFailureEventBridgeTask"
        /\ BackendFailed(executions[h])

\* The script the tenantprov handler is sent for execution x.
OwnScript(x) == scriptContent(startLambdaPayload(props, x.input))

(***************************************************************************)
(* C17: in any interleaving of the handlings of two incoming events, each  *)
(* outgoing event carries the identifier of the incoming event of its own  *)
(* execution and the outcome and output of its own invocation (the         *)
(* failure event exactly when its own invocation failed, the success       *)
(* event built from its own result), and no handling reads what another    *)
(* wrote: the file /tmp/prov-script.sh a tenantprov handler runs holds the *)
(* script that handler wrote, and the output it returns is the output of   *)
(* its own script.                                                         *)
(***************************************************************************)
C17_HandlingsAreIsolated ==
    /\ \A e \in bus :
           LET x == executions[e.execution]
           IN  /\ e.detail[props.jobIdentifierKey] =
                      x.input.detail[props.jobIdentifierKey]
               /\ IsFailureEvent(e) <=> BackendFailed(x)
               /\ IsSuccessEvent(e) <=> "Payload" \in DOMAIN x.startLambda
               /\ IsFailureEvent(e) => e.detail["jobOutput"] = props.jobFailureStatus
               /\ IsSuccessEvent(e) => e.detail = exportedVarObj(props, x)
    /\ \A h \in DOMAIN executions :
           /\ (executions[h].pc = "invoking" /\ executions[h].env # 0)
                  => tmp[executions[h].env] = OwnScript(executions[h])
           /\ (runner = "tenantprov" /\ ReturnedOutput(executions[h]))
                  => \E run \in RunsOf(OwnScript(executions[h])) :
                         executions[h].startLambda["Payload"]["output"] = Str(run.stdout)

\* Two handlers invoked for different tenants have each written their own
\* script and neither has run it yet.
C17_Witness ==
    \E h1, h2 \in DOMAIN executions :
        /\ executions[h1].pc = "invoking" /\ executions[h1].env # 0
        /\ executions[h2].pc = "invoking" /\ executions[h2].env # 0
        /\ executions[h1].input.detail = FullDetail("t1")
        /\ executions[h2].input.detail = FullDetail("t2")
        /\ OwnScript(executions[h1]) # OwnScript(executions[h2])

(***************************************************************************)
(* C18: a redelivered incoming event is not deduplicated.  Two executions  *)
(* started with the same event each invoke the function, and when both     *)
(* invocations gave the same result and both executions have ended         *)
(* SUCCEEDED, each has published one event, the second identical to the    *)
(* first in kind, source and detail.                                       *)
(***************************************************************************)
C18_RedeliveryPublishesAgain ==
    \A h1, h2 \in DOMAIN executions :
        (/\ h1 # h2
         /\ executions[h1].input = executions[h2].input
         /\ executions[h1].startLambda = executions[h2].startLambda
         /\ executions[h1].pc = "SUCCEEDED"
         /\ executions[h2].pc = "SUCCEEDED")
            => /\ executions[h1].invoked /\ executions[h2].invoked
               /\ Cardinality(EntriesOf(h1)) = 1
               /\ Cardinality(EntriesOf(h2)) = 1
               /\ \A e1 \in EntriesOf(h1), e2 \in EntriesOf(h2) :
                      /\ e1.detailType = e2.detailType
                      /\ e1.source = e2.source
                      /\ e1.detail = e2.detail

\* The same event was delivered twice, the script printed the same text
\* both times, and two success events are on the bus.
C18_Witness ==
    \E h1, h2 \in DOMAIN executions :
        /\ h1 # h2
        /\ executions[h1].input = executions[h2].input
        /\ ReturnedOutput(executions[h1])
        /\ executions[h1].startLambda = executions[h2].startLambda
        /\ \E e \in EntriesOf(h1) : IsSuccessEvent(e)
        /\ \E e \in EntriesOf(h2) : IsSuccessEvent(e)

(***************************************************************************)
(* C19: every handling that has invoked the function eventually reaches    *)
(* Completed(Success) or Completed(Failure), that is, ends SUCCEEDED with  *)
(* its success or failure event published, given that the invocation and   *)
(* the put each eventually return; once ended, an execution takes no       *)
(* further step and publishes nothing more.  The code violates the first   *)
(* part: an execution that invoked the function can end FAILED with        *)
(* nothing published (C6, C9, C13, C16) or TIMED_OUT (C15).                *)
(***************************************************************************)
C19_EveryHandlingCompletes ==
    /\ \A h \in 1..MaxExecutions :
           [](executions[h].invoked
                  => <>(executions[h].pc = "SUCCEEDED" /\ EntriesOf(h) # {}))
    /\ [][\A h \in 1..MaxExecutions :
              executions[h].pc \in Terminal
                  => /\ executions'[h] = executions[h]
                     /\ {e \in bus' : e.execution = h} = EntriesOf(h)]_vars

(***************************************************************************)
(* C20: the source of a published success event is the source the event    *)
(* manager registers for the job's success kind, the source of a published *)
(* failure event the one it registers for the job's failure kind; the two  *)
(* are not swapped, and neither is the source of the incoming event.       *)
(***************************************************************************)
C20_SourcesComeFromTheRegistry ==
    \A e \in bus :
        /\ IsSuccessEvent(e)
               => e.source = props.eventManager.supportedEvents[props.outgoingEvent.success]
        /\ IsFailureEvent(e)
               => e.source = props.eventManager.supportedEvents[props.outgoingEvent.failure]
        /\ e.source # executions[e.execution].input.source

\* A success event is on the bus, and the registry gives the failure kind
\* and the incoming kind other sources than the success kind.
C20_Witness ==
    /\ \E e \in bus : IsSuccessEvent(e)
    /\ props.eventManager.supportedEvents[props.outgoingEvent.success]
           # props.eventManager.supportedEvents[props.outgoingEvent.failure]
    /\ props.eventManager.supportedEvents[props.outgoingEvent.success]
           # props.eventManager.supportedEvents[props.incomingEvent]

(***************************************************************************)
(* C21: every outgoing event is preceded, in its own execution, by a       *)
(* completed invocation of the function.  notifySuccessEventBridgeTask is  *)
(* only entered with the result of a normally returned invocation under    *)
(* $.startLambda.Payload, notifyFailureEventBridgeTask only with the error *)
(* of a failed invocation under $.startLambda.Catch, and an execution that *)
(* has not been started, is entering startLambda or is waiting for the     *)
(* invocation has published nothing.                                       *)
(***************************************************************************)
C21_PublishFollowsInvocation ==
    /\ \A h \in DOMAIN executions :
           /\ executions[h].pc = "notifySuccessEventBridgeTask"
                  => /\ executions[h].invoked
                     /\ DOMAIN executions[h].startLambda = {"Payload"}
           /\ executions[h].pc = "notifyFailureEventBridgeTask"
                  => /\ executions[h].invoked
                     /\ DOMAIN executions[h].startLambda = {"Catch"}
           /\ executions[h].pc \in {"idle", "startLambda", "invoking"}
                  => EntriesOf(h) = {}
    /\ \A e \in bus :
           /\ executions[e.execution].invoked
           /\ IsSuccessEvent(e)
                  => DOMAIN executions[e.execution].startLambda = {"Payload"}
           /\ IsFailureEvent(e)
                  => DOMAIN executions[e.execution].startLambda = {"Catch"}

\* The function timed out, the Catch was taken and the failure event is on
\* the bus.
C21_Witness ==
    \E e \in bus :
        /\ IsFailureEvent(e)
        /\ executions[e.execution].invoked
        /\ executions[e.execution].startLambda["Catch"].Error = "Sandbox.Timedout"

(***************************************************************************)
(* C22: the docker tenantprov handler never raises to its caller.  For     *)
(* every event (with or without a script), whether or not the script file  *)
(* could be written and however the run of the script ended, the handler   *)
(* resolves with an object that has exactly one of the keys output and     *)
(* error; so an execution whose function is the tenantprov handler never   *)
(* takes the Catch of startLambda with a function error, and whatever it   *)
(* stores under $.startLambda.Payload has exactly one of the two keys.     *)
(***************************************************************************)
C22_TenantprovNeverRaises ==
    /\ \A event \in {<<>>, "script" :> Str("echo t1")} :
       \A writeFails \in BOOLEAN :
       \A run \in ScriptRuns :
           /\ tenantprovHandler(event, writeFails, run).kind = "resolved"
           /\ DOMAIN tenantprovHandler(event, writeFails, run).value
                  \in {{"output"}, {"error"}}
    /\ runner = "tenantprov" =>
           \A h \in DOMAIN executions :
               /\ BackendFailed(executions[h])
                      => executions[h].startLambda["Catch"].Error # "FunctionError"
               /\ "Payload" \in DOMAIN executions[h].startLambda
                      => DOMAIN executions[h].startLambda["Payload"]
                             \in {{"output"}, {"error"}}

\* The event had no script and the default script could not be written to
\* /tmp/prov-script.sh: the handler returned the error of the write.
C22_Witness ==
    /\ runner = "tenantprov"
    /\ \E h \in DOMAIN executions :
           /\ executions[h].invoked
           /\ "script" \notin DOMAIN startLambdaPayload(props, executions[h].input)
           /\ ReturnedError(executions[h])
           /\ executions[h].startLambda["Payload"]["error"]
                  = Str("EACCES: permission denied, open '/tmp/prov-script.sh'")

(***************************************************************************)
(* C23: the two handlers classify the same run of a script differently.    *)
(* The inline handler decides by the exit status alone: it resolves        *)
(* {output: stdout} on a zero exit, whatever stderr holds, and rejects     *)
(* otherwise.  The tenantprov handler returns {output} only when the       *)
(* script exited zero and wrote nothing to stderr, and does so whenever    *)
(* the script file was written; any text on stderr makes its result        *)
(* {error}.  So a zero-exit run that wrote to stderr is a success of the   *)
(* inline handler and a failure of the tenantprov handler.  In the         *)
(* workflow, the inline handler never stores an error object as Payload,   *)
(* and the tenantprov handler never takes the Catch as a function error.   *)
(***************************************************************************)
C23_HandlersClassifyDifferently ==
    /\ \A run \in ScriptRuns :
           /\ run.exit = 0 => inlineHandler(run)
                  = [kind |-> "resolved", value |-> ("output" :> Str(run.stdout))]
           /\ run.exit # 0 => inlineHandler(run).kind = "rejected"
           /\ \A event \in {<<>>, "script" :> Str("echo t1")} :
                  /\ \A writeFails \in BOOLEAN :
                         "output" \in DOMAIN tenantprovHandler(event, writeFails, run).value
                             => run.exit = 0 /\ run.stderr = ""
                  /\ run.exit = 0 /\ run.stderr = ""
                         => tenantprovHandler(event, FALSE, run).value
                                = ("output" :> Str(run.stdout))
                  /\ run.exit = 0 /\ run.stderr # ""
                         => /\ DOMAIN tenantprovHandler(event, FALSE, run).value = {"error"}
                            /\ DOMAIN inlineHandler(run).value = {"output"}
                            /\ inlineHandler(run).kind = "resolved"
    /\ \A h \in DOMAIN executions :
           /\ runner = "inline" => ~ReturnedError(executions[h])
           /\ runner = "tenantprov" /\ ReturnedOutput(executions[h])
                  => \E run \in RunsOf(OwnScript(executions[h])) :
                         /\ run.exit = 0 /\ run.stderr = ""
                         /\ executions[h].startLambda["Payload"]["output"] = Str(run.stdout)

\* The script exited zero after writing to stderr: the tenantprov handler
\* returned {error} for the run that the inline handler resolves.
C23_Witness ==
    /\ runner = "tenantprov"
    /\ \E h \in DOMAIN executions :
           /\ ReturnedError(executions[h])
           /\ executions[h].startLambda["Payload"]["error"]
                  = Str("Script execution error: permission denied")
           /\ \E run \in RunsOf(OwnScript(executions[h])) :
                  /\ run.exit = 0 /\ run.stderr = "permission denied"
                  /\ tenantprovHandler(startLambdaPayload(props, executions[h].input),
                                       FALSE, run).value
                         = executions[h].startLambda["Payload"]
                  /\ inlineHandler(run).kind = "resolved"

====
